---- MODULE Spec2Model ----
(***************************************************************************)
(* Model of the two batch scripts of the repository:                       *)
(*   tabulate.py       the block reward tabulator (salvage + ordering)     *)
(*   analyse_missed.py the missed-attestation aggregator                   *)
(* Strings (filenames) are sequences of character codes, so that Python's  *)
(* sorted() on str, str.split and int() are modelled by what they do.      *)
(***************************************************************************)
EXTENDS Integers, Sequences, FiniteSets, TLC

\* ------------------------------------------------------------------ bounds
\* Largest number of files in the scanned directory.
MaxFiles == 2
\* Longest per_attestation_rewards / attestations list of one record.
MaxAtts == 3
\* Longest "all" list of one missed-attestation record.
MaxMissed == 2
\* Longest "per_attestation" list of one missed-attestation record.
MaxPerAtt == 1

\* ------------------------------------------------------- character codes
Dot == 46
Underscore == 95
Zero == 48
\* range(0, 32): slots of an epoch.
SlotsPerEpoch == 32

\* ------------------------------------------------------------ input sets
\* Filenames of the form <prefix>_<slot>.<ext>: prefix "a", slot tokens "9",
\* "10" and "11", extension "j".
Prefixes == {<<97>>}
SlotTokens == {<<57>>, <<49, 48>>, <<49, 49>>}
Ext == <<106>>
FileNames == {p \o <<Underscore>> \o s \o <<Dot>> \o Ext : p \in Prefixes, s \in SlotTokens}

Validators == {1, 2}
RewardVals == {0, 1}
\* Slot strings an included attestation may carry: "8" and "9".
AttSlotTokens == {<<56>>, <<57>>}
Graffiti == {"lh"}
BlockTotals == {7}

SeqsUpTo(S, n) == UNION {[1..k -> S] : k \in 0..n}
PartialMaps(K, V) == UNION {[D -> V] : D \in SUBSET K}
Min(a, b) == IF a <= b THEN a ELSE b

\* ------------------------------------------------------ str and builtins
\* Python's < on str: lexicographic by code point, a proper prefix first.
RECURSIVE StrLess(_, _)
StrLess(a, b) ==
    IF a = <<>> THEN b # <<>>
    ELSE IF b = <<>> THEN FALSE
    ELSE IF Head(a) # Head(b) THEN Head(a) < Head(b)
    ELSE StrLess(Tail(a), Tail(b))

\* sorted(iterable of str): ascending by StrLess.
RECURSIVE sorted(_)
sorted(S) ==
    IF S = {} THEN <<>>
    ELSE LET m == CHOOSE x \in S : \A y \in S : ~StrLess(y, x)
         IN  <<m>> \o sorted(S \ {m})

\* str.split(sep) for a one-character separator.
RECURSIVE split(_, _)
split(s, sep) ==
    IF \A k \in 1..Len(s) : s[k] # sep THEN <<s>>
    ELSE LET k == CHOOSE j \in 1..Len(s) :
                      s[j] = sep /\ \A h \in 1..(j - 1) : s[h] # sep
         IN  <<SubSeq(s, 1, k - 1)>> \o split(SubSeq(s, k + 1, Len(s)), sep)

\* int(str) on a string of decimal digits.
RECURSIVE int(_)
int(ds) ==
    IF ds = <<>> THEN 0
    ELSE 10 * int(SubSeq(ds, 1, Len(ds) - 1)) + (ds[Len(ds)] - Zero)

get_slot(filename) == int(split(split(filename, Dot)[1], Underscore)[2])

\* sum(map.values())
RECURSIVE SumValues(_)
SumValues(m) ==
    IF DOMAIN m = {} THEN 0
    ELSE LET k == CHOOSE x \in DOMAIN m : TRUE
         IN  m[k] + SumValues([x \in DOMAIN m \ {k} |-> m[x]])

allMutant(bs) == bs # <<>> /\ \A k \in 1..Len(bs) : bs[k]

\* all(list of bool)
all(bs) == \A k \in 1..Len(bs) : bs[k]

\* sum(list of bool)
RECURSIVE sumBools(_)
sumBools(bs) ==
    IF bs = <<>> THEN 0 ELSE (IF Head(bs) THEN 1 ELSE 0) + sumBools(Tail(bs))

takewhileLenMutant(bs) == sumBools(bs)

\* len(list(itertools.takewhile(lambda x: x, bs)))
RECURSIVE takewhileLen(_)
takewhileLen(bs) ==
    IF bs = <<>> \/ ~Head(bs) THEN 0 ELSE 1 + takewhileLen(Tail(bs))

\* --------------------------------------------------------- input records
\* Reward records {"graffiti", "total", "per_attestation_rewards",
\* "prev_epoch_rewards", "curr_epoch_rewards"} with at most n attestations,
\* each rewarding as one of maps.
RewardMaps == PartialMaps(Validators, RewardVals)
EpochMaps == {<<>>, (1 :> 1) @@ (2 :> 0)}
RewardRecords(maps, n, epochs) ==
    [graffiti : Graffiti, total : BlockTotals,
     per_attestation_rewards : SeqsUpTo(maps, n),
     prev_epoch_rewards : {<<>>}, curr_epoch_rewards : epochs]
\* Raw block records {"data": {"message": {"body": {"attestations": [...]}}}}
\* with at most n attestations, each {"data": {"slot": str}}.
Attestation(tok) == [data |-> [slot |-> tok]]
BlockRecords(n) ==
    {[data |-> [message |-> [body |-> [attestations |-> as]]]] :
        as \in SeqsUpTo({Attestation(t) : t \in AttSlotTokens}, n)}
NoRecord ==
    [graffiti |-> "", total |-> 0, per_attestation_rewards |-> <<>>,
     prev_epoch_rewards |-> <<>>, curr_epoch_rewards |-> <<>>]

\* -------------------------------------------------------------- tabulate
VARIABLES data_dir, block_dir, filenames, pc, idx, parent_slot, json_data,
          attestations, per_attestation_totals, row, rows
\* analyse_missed.py: the three accumulators, the CSV rows written, and the
\* number of "all" and "per_attestation" entries read so far (history).
VARIABLES missed_validators, missed_subnets, missed_by_slot,
          missed_atts_csv, missed_subnets_csv, read_all, read_per

len(m) == Cardinality(DOMAIN m)

\* sum(1 for reward_map in per_attestation_rewards if len(reward_map) == 0)
useless_attestations(par) == Cardinality({k \in 1..Len(par) : len(par[k]) = 0})

validators_covered(jd) == len(jd.prev_epoch_rewards) + len(jd.curr_epoch_rewards)

is_salvagedMutant(att, rewards, parent) ==
    len(rewards) > 0 /\ int(att.data.slot) <= parent

\* if len(rewards) > 0 and att_slot < parent_slot
is_salvaged(att, rewards, parent) ==
    len(rewards) > 0 /\ int(att.data.slot) < parent

\* The salvage loop over zip(attestations, per_attestation_rewards): the
\* 0-based indices appended to salvaged_attestations, in order.
RECURSIVE salvagedUpTo(_, _, _, _)
salvagedUpTo(atts, par, parent, n) ==
    IF n = 0 THEN <<>>
    ELSE salvagedUpTo(atts, par, parent, n - 1) \o
         (IF is_salvaged(atts[n], par[n], parent) THEN <<n - 1>> ELSE <<>>)
salvaged_attestations(atts, par, parent) ==
    salvagedUpTo(atts, par, parent, Min(Len(atts), Len(par)))

RECURSIVE sumOver(_, _)
sumOver(f, ks) ==
    IF ks = <<>> THEN 0 ELSE f[Head(ks) + 1] + sumOver(f, Tail(ks))
salvaged_votes(atts, par, parent) ==
    sumOver([k \in 1..Len(par) |-> len(par[k])], salvaged_attestations(atts, par, parent))
salvaged_rewards(atts, par, parent) ==
    sumOver([k \in 1..Len(par) |-> SumValues(par[k])], salvaged_attestations(atts, par, parent))

totals(par) == [k \in 1..Len(par) |-> SumValues(par[k])]

strict_ok(a, b) == a >= b

lenient_okMutant(a, b) == a > b \/ a = 0 \/ b = 0

lenient_ok(a, b) == a >= b \/ a = 0 \/ b = 0

strict_comparisons(t) == [k \in 1..(Len(t) - 1) |-> strict_ok(t[k], t[k + 1])]
lenient_comparisons(t) == [k \in 1..(Len(t) - 1) |-> lenient_ok(t[k], t[k + 1])]

\* The row dict built for one file.
build_row(filename, jd, atts, parent) ==
    LET par == jd.per_attestation_rewards
        t == totals(par)
        sc == strict_comparisons(t)
        lc == lenient_comparisons(t)
    IN  [slot |-> get_slot(filename),
         graffiti |-> jd.graffiti,
         num_attestations |-> Len(par),
         useless_attestations |-> useless_attestations(par),
         validators_covered |-> validators_covered(jd),
         block_reward |-> jd.total,
         parent_slot |-> parent,
         num_salvaged |-> Len(salvaged_attestations(atts, par, parent)),
         salvaged_votes |-> salvaged_votes(atts, par, parent),
         salvaged_rewards |-> salvaged_rewards(atts, par, parent),
         all_strict_ord |-> all(sc),
         num_strict_ord |-> sumBools(sc),
         seq_strict_ord |-> takewhileLen(sc),
         all_lenient_ord |-> all(lc),
         num_lenient_ord |-> sumBools(lc),
         seq_lenient_ord |-> takewhileLen(lc)]
NoRow == build_row(<<Underscore, Zero>>, NoRecord, <<>>, 0)

block_existsMutant(filename, dir) == TRUE

\* open(os.path.join(BLOCK_DIR, filename)) succeeds.
block_exists(filename, dir) == filename \in dir

\* parent_slot = get_slot(filenames[0]) - 1
initial_parent(names) == get_slot(names[1]) - 1

loop_doneMutant(i, names) == i >= Len(names)

\* The for loop over filenames is exhausted.
loop_done(i, names) == i > Len(names)

next_parentMutant(slot, parent) == parent

\* parent_slot = slot
next_parent(slot, parent) == slot

tab_vars == <<block_dir, parent_slot, attestations, per_attestation_totals, row, rows>>
missed_vars == <<missed_validators, missed_subnets, missed_by_slot,
                 missed_atts_csv, missed_subnets_csv, read_all, read_per>>
vars == <<data_dir, filenames, pc, idx, json_data, tab_vars, missed_vars>>

\* Directories before main() runs: DATA_DIR holds dirs-many reward files,
\* BLOCK_DIR any set of raw block files.
InitDirs(dirs) ==
    /\ data_dir \in dirs
    /\ block_dir \in SUBSET FileNames
    /\ filenames = <<>>
    /\ pc = "start"
    /\ idx = 0
    /\ parent_slot = 0
    /\ json_data = NoRecord
    /\ attestations = <<>>
    /\ per_attestation_totals = <<>>
    /\ row = NoRow
    /\ rows = <<>>
    /\ missed_validators = <<>>
    /\ missed_subnets = <<>>
    /\ missed_by_slot = <<>>
    /\ missed_atts_csv = <<>>
    /\ missed_subnets_csv = <<>>
    /\ read_all = 0
    /\ read_per = 0

\* Lines 21-27: list and sort DATA_DIR, write the header, take the first
\* file's slot; filenames[0] raises IndexError on an empty directory.
Start ==
    /\ pc = "start"
    /\ filenames' = sorted(data_dir)
    /\ IF filenames' = <<>>
       THEN pc' = "aborted" /\ UNCHANGED <<idx, parent_slot>>
       ELSE pc' = "loop" /\ idx' = 1 /\ parent_slot' = initial_parent(filenames')
    /\ UNCHANGED <<data_dir, block_dir, json_data, attestations,
                   per_attestation_totals, row, rows, missed_vars>>

\* Lines 29-93: one iteration of the loop, on the record read from DATA_DIR
\* and the block read from BLOCK_DIR; a missing block file raises.
ProcessFile(records, blocks) ==
    /\ pc = "loop"
    /\ ~loop_done(idx, filenames)
    /\ \E jd \in records :
         /\ json_data' = jd
         /\ IF ~block_exists(filenames[idx], block_dir)
            THEN /\ pc' = "aborted"
                 /\ UNCHANGED <<idx, parent_slot, attestations,
                                per_attestation_totals, row, rows>>
            ELSE \E block \in blocks :
                 /\ attestations' = block.data.message.body.attestations
                 /\ per_attestation_totals' = totals(jd.per_attestation_rewards)
                 /\ row' = build_row(filenames[idx], jd, attestations', parent_slot)
                 /\ parent_slot' = next_parent(row'.slot, parent_slot)
                 /\ rows' = Append(rows, row')
                 /\ idx' = idx + 1
                 /\ pc' = "loop"
    /\ UNCHANGED <<data_dir, block_dir, filenames, missed_vars>>

\* Line 95: the loop is over, the CSV file is closed.
Finish ==
    /\ pc = "loop"
    /\ loop_done(idx, filenames)
    /\ pc' = "done"
    /\ UNCHANGED <<data_dir, filenames, idx, json_data, tab_vars, missed_vars>>

\* A whole run over a directory of up to MaxFiles files. The rows written
\* stay in the state, so the records read are short: at most one
\* attestation, rewarding nobody or validator 1.
Dirs == {S \in SUBSET FileNames : Cardinality(S) <= MaxFiles}
Init == InitDirs(Dirs)
TabulateFile ==
    ProcessFile(RewardRecords({<<>>, (1 :> 1)}, 1, EpochMaps), BlockRecords(1))
Next == Start \/ TabulateFile \/ Finish
Spec == Init /\ [][Next]_vars

\* One row over every record of up to MaxAtts attestations: a directory of
\* one file whose block file exists.
InitRow == InitDirs({{f} : f \in FileNames}) /\ block_dir = data_dir
TabulateRecord ==
    ProcessFile(RewardRecords(RewardMaps, MaxAtts, {(1 :> 1)}), BlockRecords(MaxAtts))
NextRow == Start \/ TabulateRecord \/ Finish
SpecRow == InitRow /\ [][NextRow]_vars

\* --------------------------------------------------------- analyse_missed
\* A dict is the sequence of its <<key, count>> items in insertion order.
Subnets == {0, 1}
MissedRecords ==
    [all : SeqsUpTo(Validators, MaxMissed),
     per_attestation : SeqsUpTo([subnet : Subnets], MaxPerAtt)]

has_key(d, key) == \E k \in 1..Len(d) : d[k][1] = key

count_upMutant(d, key) ==
    IF has_key(d, key) THEN d ELSE Append(d, <<key, 1>>)

\* if key in d: d[key] += 1 else: d[key] = 1
count_up(d, key) ==
    IF has_key(d, key)
    THEN [k \in 1..Len(d) |-> IF d[k][1] = key THEN <<key, d[k][2] + 1>> ELSE d[k]]
    ELSE Append(d, <<key, 1>>)

\* for validator in json_data["all"]: count it in missed_validators
RECURSIVE count_validators(_, _)
count_validators(d, vs) ==
    IF vs = <<>> THEN d ELSE count_validators(count_up(d, Head(vs)), Tail(vs))

subnet_upMutant(d, att) ==
    IF has_key(d, att.subnet) THEN count_up(d, att.subnet) ELSE d

\* subnet = att["subnet"]; count it in missed_subnets
subnet_up(d, att) == count_up(d, att.subnet)

\* for att in json_data["per_attestation"]: count its subnet
RECURSIVE count_subnets(_, _)
count_subnets(d, atts) ==
    IF atts = <<>> THEN d ELSE count_subnets(subnet_up(d, Head(atts)), Tail(atts))

\* The rows written from d.items().
csv_rows(d) == d

\* Lines 18-27: the sorted listing of DATA_DIR and the empty accumulators.
InitMissed ==
    /\ data_dir \in Dirs
    /\ filenames = sorted(data_dir)
    /\ pc = "loop"
    /\ idx = 1
    /\ json_data = [all |-> <<>>, per_attestation |-> <<>>]
    /\ missed_validators = <<>>
    /\ missed_subnets = <<>>
    /\ missed_by_slot = [s \in 0..(SlotsPerEpoch - 1) |-> 0]
    /\ missed_atts_csv = <<>>
    /\ missed_subnets_csv = <<>>
    /\ read_all = 0
    /\ read_per = 0
    /\ block_dir = {}
    /\ parent_slot = 0
    /\ attestations = <<>>
    /\ per_attestation_totals = <<>>
    /\ row = NoRow
    /\ rows = <<>>

\* Lines 29-50: one iteration of the loop.
AggregateFile ==
    /\ pc = "loop"
    /\ idx <= Len(filenames)
    /\ \E jd \in MissedRecords :
         LET slot_mod == get_slot(filenames[idx]) % SlotsPerEpoch
             validators_missed == Len(jd.all)
         IN  /\ json_data' = jd
             /\ missed_by_slot' =
                  [missed_by_slot EXCEPT ![slot_mod] = @ + validators_missed]
             /\ missed_validators' = count_validators(missed_validators, jd.all)
             /\ missed_subnets' = count_subnets(missed_subnets, jd.per_attestation)
             /\ read_all' = read_all + Len(jd.all)
             /\ read_per' = read_per + Len(jd.per_attestation)
    /\ idx' = idx + 1
    /\ UNCHANGED <<data_dir, filenames, pc, tab_vars, missed_atts_csv, missed_subnets_csv>>

\* Lines 53-72: the accumulators are written out.
WriteCsvs ==
    /\ pc = "loop"
    /\ idx > Len(filenames)
    /\ missed_atts_csv' = csv_rows(missed_validators)
    /\ missed_subnets_csv' = csv_rows(missed_subnets)
    /\ pc' = "done"
    /\ UNCHANGED <<data_dir, filenames, idx, json_data, tab_vars, missed_validators,
                   missed_subnets, missed_by_slot, read_all, read_per>>

NextMissed == AggregateFile \/ WriteCsvs
SpecMissed == InitMissed /\ [][NextMissed]_vars

\* ------------------------------------------------------------ properties
\* The last row written is `row`, built from per_attestation_totals and
\* attestations.
RowWritten == rows # <<>>
Pairs == IF row.num_attestations >= 1 THEN row.num_attestations - 1 ELSE 0
StrictPair(k) == per_attestation_totals[k] >= per_attestation_totals[k + 1]
LenientPair(k) ==
    \/ per_attestation_totals[k] >= per_attestation_totals[k + 1]
    \/ per_attestation_totals[k] = 0
    \/ per_attestation_totals[k + 1] = 0
PairIndices == 1..(Len(per_attestation_totals) - 1)
Stopped == pc \in {"done", "aborted"}

\* C1 as stated: for every input file set, once the run has ended the
\* number of rows written equals the number of files in DATA_DIR.
C1_RowsEqualFilesAlways == Stopped => Len(rows) = Cardinality(data_dir)

\* C1 amended: when the run completes normally, the number of rows written
\* equals the number of files in DATA_DIR; it never exceeds that number.
C1_RowsEqualFilesWhenDone ==
    /\ pc = "done" => Len(rows) = Cardinality(data_dir)
    /\ Len(rows) <= Cardinality(data_dir)

C1_Witness == pc = "done" /\ Len(rows) = 2 /\ Cardinality(data_dir) = 2

\* C2 as stated: for each ordering the prefix length is 0 if the first pair
\* violates it and (attestation count - 1) if every pair satisfies it, for
\* every attestation count.
C2_PrefixLengthAnyCount ==
    RowWritten =>
      /\ (1 \in PairIndices /\ ~StrictPair(1)) => row.seq_strict_ord = 0
      /\ (1 \in PairIndices /\ ~LenientPair(1)) => row.seq_lenient_ord = 0
      /\ (\A k \in PairIndices : StrictPair(k))
            => row.seq_strict_ord = row.num_attestations - 1
      /\ (\A k \in PairIndices : LenientPair(k))
            => row.seq_lenient_ord = row.num_attestations - 1

\* C2 amended: the prefix length is 0 if the first pair violates the
\* ordering; if every pair satisfies it, it is (attestation count - 1) for a
\* record with at least one attestation and 0 for a record with none.
C2_PrefixLength ==
    RowWritten =>
      /\ (1 \in PairIndices /\ ~StrictPair(1)) => row.seq_strict_ord = 0
      /\ (1 \in PairIndices /\ ~LenientPair(1)) => row.seq_lenient_ord = 0
      /\ (\A k \in PairIndices : StrictPair(k)) => row.seq_strict_ord = Pairs
      /\ (\A k \in PairIndices : LenientPair(k)) => row.seq_lenient_ord = Pairs

C2_Witness ==
    /\ RowWritten
    /\ row.num_attestations = 3
    /\ ~StrictPair(1) /\ row.seq_strict_ord = 0
    /\ \A k \in PairIndices : LenientPair(k)
    /\ row.seq_lenient_ord = 2

\* C3: any two files processed consecutively have ascending slots: each
\* row's slot is less than the next row's slot.
C3_AscendingSlots ==
    \A k \in 1..(Len(rows) - 1) : rows[k].slot < rows[k + 1].slot

\* C4 as stated: whenever DATA_DIR and BLOCK_DIR do not hold the same set of
\* filenames, the run does not complete normally.
C4_MisalignedAborts == data_dir # block_dir => pc # "done"

\* C4 amended: whenever some reward file has no raw-block file of the same
\* name, the run never completes normally and stops only in the aborted
\* state, and rows are written only for the files sorted before the first
\* such file.
C4_MissingBlockAborts ==
    ~(data_dir \subseteq block_dir) =>
      /\ pc # "done"
      /\ (~ENABLED Next) => pc = "aborted"
      /\ \A k \in 1..Len(rows) :
            /\ rows[k].slot = get_slot(filenames[k])
            /\ \A j \in 1..k : filenames[j] \in block_dir

C4_Witness ==
    /\ pc = "aborted"
    /\ Len(rows) = 1
    /\ filenames[1] \in block_dir
    /\ filenames[2] \notin block_dir

\* C5: a row whose block attestations all have slot >= the row's
\* parent_slot has num_salvaged, salvaged_votes and salvaged_rewards 0.
C5_NoSalvageAtOrAfterParent ==
    (RowWritten /\ \A k \in 1..Len(attestations) :
                       int(attestations[k].data.slot) >= row.parent_slot)
    => row.num_salvaged = 0 /\ row.salvaged_votes = 0 /\ row.salvaged_rewards = 0

C5_Witness ==
    /\ RowWritten
    /\ Len(attestations) = 2
    /\ \A k \in 1..2 : int(attestations[k].data.slot) = row.parent_slot
    /\ row.num_attestations = 2
    /\ \A k \in 1..2 : per_attestation_totals[k] > 0
    /\ row.num_salvaged = 0

\* C6: in every row, all_strict_ord implies all_lenient_ord.
C6_StrictImpliesLenient ==
    RowWritten => (row.all_strict_ord => row.all_lenient_ord)

C6_Witness ==
    /\ RowWritten
    /\ row.num_attestations = 3
    /\ row.all_strict_ord
    /\ per_attestation_totals[1] = per_attestation_totals[2]
    /\ per_attestation_totals[2] > 0

ParentChain ==
    /\ RowWritten => rows[1].parent_slot = get_slot(filenames[1]) - 1
    /\ \A k \in 2..Len(rows) : rows[k].parent_slot = rows[k - 1].slot
    /\ pc = "loop" =>
         parent_slot = IF RowWritten THEN rows[Len(rows)].slot
                       ELSE get_slot(filenames[1]) - 1
ParentAssigned ==
    parent_slot' # parent_slot =>
      \/ pc = "start"
      \/ rows' = Append(rows, row') /\ parent_slot' = row'.slot

\* C9: the first row's parent_slot is the first file's slot - 1, every
\* later row's parent_slot is the slot of the row before it, at every loop
\* head parent_slot is the slot of the last row written, and after its
\* initialisation parent_slot changes only in the step that writes a row,
\* to that row's slot.
C9_ParentChain == []ParentChain /\ [][ParentAssigned]_vars

C9_Witness ==
    /\ Len(rows) = 2
    /\ rows[1].parent_slot = rows[1].slot - 1
    /\ rows[2].parent_slot = rows[1].slot
    /\ rows[2].slot # rows[1].slot + 1

\* C10: with P = max(0, n - 1) pairs, seq_strict <= num_strict <=
\* num_lenient <= P, seq_strict <= seq_lenient <= num_lenient, and for each
\* ordering all_X holds exactly when num_X = P, exactly when seq_X = P.
C10_OrderingMetrics ==
    RowWritten =>
      /\ row.seq_strict_ord <= row.num_strict_ord
      /\ row.num_strict_ord <= row.num_lenient_ord
      /\ row.num_lenient_ord <= Pairs
      /\ row.seq_strict_ord <= row.seq_lenient_ord
      /\ row.seq_lenient_ord <= row.num_lenient_ord
      /\ row.all_strict_ord <=> row.num_strict_ord = Pairs
      /\ row.all_strict_ord <=> row.seq_strict_ord = Pairs
      /\ row.all_lenient_ord <=> row.num_lenient_ord = Pairs
      /\ row.all_lenient_ord <=> row.seq_lenient_ord = Pairs

C10_Witness ==
    /\ RowWritten
    /\ row.num_attestations = 3
    /\ row.seq_strict_ord = 0 /\ row.num_strict_ord = 1
    /\ row.num_lenient_ord = 2 /\ row.all_lenient_ord
    /\ ~row.all_strict_ord

RECURSIVE SumCounts(_)
SumCounts(d) == IF d = <<>> THEN 0 ELSE Head(d)[2] + SumCounts(Tail(d))

\* C7: after every prefix of files the per-validator miss counts sum to the
\* number of "all" entries read, and so do the rows of the validator CSV.
C7_ValidatorCountsSum ==
    /\ SumCounts(missed_validators) = read_all
    /\ pc = "done" => SumCounts(missed_atts_csv) = read_all

C7_Witness ==
    /\ pc = "done"
    /\ idx = 3
    /\ json_data.all = <<1, 1>>
    /\ missed_atts_csv = <<(<<2, 1>>), (<<1, 3>>)>>

\* C8: the per-subnet counts sum to the number of per_attestation entries
\* read, and so do the rows of the subnet CSV once all files are processed.
C8_SubnetCountsSum ==
    /\ SumCounts(missed_subnets) = read_per
    /\ pc = "done" => SumCounts(missed_subnets_csv) = read_per

C8_Witness ==
    /\ pc = "done"
    /\ idx = 3
    /\ missed_subnets_csv = <<(<<1, 2>>)>>

====
